---- MODULE Spec2Model ----
(***************************************************************************)
(* A model of python/cudf/cudf/core/column/string.py: the StringColumn     *)
(* (offsets child + chars child + validity mask + an (offset, size)        *)
(* window) and the StringMethods accessor that operates on it.             *)
(*                                                                         *)
(* A column is a record                                                    *)
(*   [base_children, base_mask, offset, size, _children, _nvstrings,      *)
(*    _nvcategory, _indices]                                               *)
(* base_children is <<>> or <<offsets, chars>>: offsets a sequence of      *)
(* byte offsets, chars a sequence of bytes.  Python's None is the empty    *)
(* tuple None and a present value x is Some(x) == <<x>>.                   *)
(***************************************************************************)
EXTENDS Integers, Sequences, FiniteSets, TLC

\* ------------------------------------------------------------------ bounds
\* Most rows of a base column that is constructed.
MaxRows == 2
\* Most bytes of one row's string.
MaxLen == 1

\* The bytes a chars child is made of.
Bytes == {"a", "b"}

None == <<>>
Some(x) == <<x>>
IsNone(o) == Len(o) = 0
Get(o) == o[1]

\* ------------------------------------------------------------- sequences
SeqsUpTo(S, n) == UNION {[1..k -> S] : k \in 0..n}

RECURSIVE Concat(_)
Concat(ss) == IF Len(ss) = 0 THEN <<>> ELSE Head(ss) \o Concat(Tail(ss))

\* The strings a row may hold over a byte set, and the rows of a base column.
StrsOver(B, maxlen) == SeqsUpTo(B, maxlen)
RowSeqsOver(B, maxlen) == SeqsUpTo(StrsOver(B, maxlen), MaxRows)

\* The offsets child of a column holding `rows`: the running byte count,
\* one entry more than there are rows, starting at 0.
OffsetsOf(rows) == [i \in 1..(Len(rows) + 1) |-> Len(Concat(SubSeq(rows, 1, i - 1)))]

\* The (offsets, chars) children of a freshly built column holding `rows`.
ChildrenOf(rows) == <<OffsetsOf(rows), Concat(rows)>>

\* --------------------------------------------------- ColumnBase primitives
\* build_column(data=buf, size=size, offset=offset): the `size` elements of
\* `buf` from element `offset` on (0-based), without copying.
BuildColumn(buf, size, offset) == SubSeq(buf, offset + 1, offset + size)

\* The bytes between offsets r and r + 1 (r 0-based) of a chars buffer.
RowBytesAt(offsets, chars, r) == SubSeq(chars, offsets[r + 1] + 1, offsets[r + 2])

\* col[i], 0-based.
Item(colseq, i) == colseq[i + 1]

\* col.binary_operator("sub", scalar): elementwise subtraction.
BinarySub(colseq, scalar) == [i \in 1..Len(colseq) |-> colseq[i] - scalar]

\* ------------------------------------------------------ StringColumn.__init__
\* The mutant: the offset is not taken off the row count.
StringColumnSizeNoOffset(offset, children) ==
    IF Len(children) = 0 THEN 0
    ELSE IF Len(children[1]) = 0 THEN 0
    ELSE Len(children[1]) - 1

\* The size the constructor computes when none is passed.
StringColumnSize(offset, children) ==
    LET size == IF Len(children) = 0 THEN 0
                ELSE IF Len(children[1]) = 0 THEN 0
                ELSE Len(children[1]) - 1
    IN  size - offset

\* StringColumn(mask, size, offset, children); `size` is None or Some(n).
StringColumnInit(mask, size, offset, children) ==
    [base_children |-> children,
     base_mask     |-> mask,
     offset        |-> offset,
     size          |-> IF IsNone(size) THEN StringColumnSize(offset, children)
                       ELSE Get(size),
     _children     |-> None,
     _nvstrings    |-> None,
     _nvcategory   |-> None,
     _indices      |-> None]

\* ------------------------------------------------------------- properties
\* The rows of the base (unsliced) column, as the offsets child counts them.
BaseRows(c) == IF Len(c.base_children) = 0 THEN 0 ELSE Len(c.base_children[1]) - 1

\* A column whose window lies inside its base children.
ValidWindow(c) ==
    /\ c.offset >= 0
    /\ c.size >= 0
    /\ c.offset + c.size <= BaseRows(c)
    /\ Len(c.base_children) = 2 => Len(c.base_children[1]) >= 1

\* The mutant: the chars child is windowed from byte 0, not from the first
\* offset of the window.
DeriveChildrenCharsFromZero(c) ==
    IF Len(c.base_children) = 0 THEN <<>>
    ELSE IF c.offset = 0 /\ Len(c.base_children[1]) = c.size + 1
         THEN c.base_children
    ELSE LET offsets_window == BuildColumn(c.base_children[1], c.size + 1, c.offset)
             chars_offset == Item(offsets_window, 0)
             offsets_column == BinarySub(offsets_window, chars_offset)
             chars_size == Item(offsets_column, c.size)
         IN  <<offsets_column, BuildColumn(c.base_children[2], chars_size, 0)>>

\* The mutant: the windowed offsets are not shifted by the first of them.
DeriveChildrenNoShift(c) ==
    IF Len(c.base_children) = 0 THEN <<>>
    ELSE IF c.offset = 0 /\ Len(c.base_children[1]) = c.size + 1
         THEN c.base_children
    ELSE LET offsets_column == BuildColumn(c.base_children[1], c.size + 1, c.offset)
             chars_offset == Item(offsets_column, 0)
             chars_size == Item(offsets_column, c.size) - chars_offset
         IN  <<offsets_column, BuildColumn(c.base_children[2], chars_size, chars_offset)>>

\* The mutant: a column of no rows has an empty offsets child.
DeriveChildrenEmptyWhenNoRows(c) ==
    IF Len(c.base_children) = 0 THEN <<>>
    ELSE IF c.size = 0 THEN << <<>>, <<>> >>
    ELSE IF c.offset = 0 /\ Len(c.base_children[1]) = c.size + 1
         THEN c.base_children
    ELSE LET offsets_window == BuildColumn(c.base_children[1], c.size + 1, c.offset)
             chars_offset == Item(offsets_window, 0)
             offsets_column == BinarySub(offsets_window, chars_offset)
             chars_size == Item(offsets_column, c.size)
         IN  <<offsets_column, BuildColumn(c.base_children[2], chars_size, chars_offset)>>

\* The (offsets, chars) pair the `children` property computes.
DeriveChildren(c) ==
    IF Len(c.base_children) = 0 THEN <<>>
    ELSE IF c.offset = 0 /\ Len(c.base_children[1]) = c.size + 1
         THEN c.base_children
    ELSE LET offsets_window == BuildColumn(c.base_children[1], c.size + 1, c.offset)
             chars_offset == Item(offsets_window, 0)
             offsets_column == BinarySub(offsets_window, chars_offset)
             chars_size == Item(offsets_column, c.size)
             chars_column == BuildColumn(c.base_children[2], chars_size, chars_offset)
         IN  <<offsets_column, chars_column>>

\* The pair a read of `children` returns: the cached one, or the one
\* computed when nothing is cached.
ChildrenValue(c) ==
    IF IsNone(c._children) THEN DeriveChildren(c) ELSE Get(c._children)

\* The mutant: a read of `children` caches nothing.
ReadChildrenNoCache(c) == c

\* The `children` property: the cached pair, computed on the first read.
\* Returns the column after the read (its cache filled).
ReadChildren(c) ==
    IF IsNone(c._children) THEN [c EXCEPT !._children = Some(DeriveChildren(c))]
    ELSE c

\* The validity of logical row r (0-based): no mask means every row is valid.
RowValid(c, r) == IsNone(c.base_mask) \/ Get(c.base_mask)[c.offset + r + 1]

\* null_count: the null rows of the window.
NullCount(c) == Cardinality({r \in 0..(c.size - 1) : ~RowValid(c, r)})

\* has_nulls
HasNulls(c) == NullCount(c) > 0

\* The `mask` property: the base mask when the window starts at row 0, else
\* a copy of it that starts at the window's first row.
Mask(c) ==
    IF IsNone(c.base_mask) THEN None
    ELSE IF c.offset = 0 THEN c.base_mask
    ELSE Some(BuildColumn(Get(c.base_mask), c.size, c.offset))

\* ---------------------------------------------------------- serialization
\* The bytes of one int32, least significant first.
EncodeInt32(v) ==
    <<v % 256, (v \div 256) % 256, (v \div 65536) % 256, (v \div 16777216) % 256>>

DecodeInt32(b) == b[1] + 256 * b[2] + 65536 * b[3] + 16777216 * b[4]

\* A child column's serialize(): a header naming the element width and its
\* one frame, the raw bytes of the child's elements (itemsize 4 for the
\* int32 offsets child, 1 for the int8 chars child).
ChildSerialize(child, itemsize) ==
    [header |-> [itemsize |-> itemsize, frame_count |-> 1],
     frames |-> <<IF itemsize = 4
                  THEN Concat([i \in 1..Len(child) |-> EncodeInt32(child[i])])
                  ELSE child>>]

\* A child column's deserialize(header, [frame]): a column over the frame,
\* of as many elements as the frame's bytes hold.
ChildDeserialize(header, frames) ==
    IF header.itemsize = 4
    THEN [i \in 1..(Len(frames[1]) \div 4) |->
              DecodeInt32(SubSeq(frames[1], 4 * i - 3, 4 * i))]
    ELSE frames[1]

\* The element width of child i of a string column: int32 offsets, int8 chars.
ChildItemsize(i) == IF i = 1 THEN 4 ELSE 1

\* The mutant: the mask frame is appended whenever the column has a mask.
SerializeMaskWhenNullable(c) ==
    LET children == ChildrenValue(c)
        subs == [i \in 1..Len(children) |-> ChildSerialize(children[i], ChildItemsize(i))]
        child_frames == Concat([i \in 1..Len(children) |-> subs[i].frames])
        frames == IF ~IsNone(c.base_mask) THEN Append(child_frames, Get(Mask(c)))
                  ELSE child_frames
    IN  [header |-> [null_count  |-> NullCount(c),
                     subheaders  |-> [i \in 1..Len(children) |-> subs[i].header],
                     frame_count |-> Len(frames)],
         frames |-> frames]

\* StringColumn.serialize(): the header and the frames.
Serialize(c) ==
    LET children == ChildrenValue(c)
        subs == [i \in 1..Len(children) |-> ChildSerialize(children[i], ChildItemsize(i))]
        child_frames == Concat([i \in 1..Len(children) |-> subs[i].frames])
        frames == IF NullCount(c) > 0 THEN Append(child_frames, Get(Mask(c)))
                  ELSE child_frames
    IN  [header |-> [null_count  |-> NullCount(c),
                     subheaders  |-> [i \in 1..Len(children) |-> subs[i].header],
                     frame_count |-> Len(frames)],
         frames |-> frames]

Min(a, b) == IF a < b THEN a ELSE b

\* StringColumn.deserialize(header, frames): the column built from them.
Deserialize(header, frames) ==
    LET buffers == frames
        nbuf == IF header.null_count > 0 THEN Some(buffers[3]) ELSE None
        n == Min(Len(header.subheaders), Min(Len(buffers), 2))
        children == [i \in 1..n |-> ChildDeserialize(header.subheaders[i], <<buffers[i]>>)]
    IN  StringColumnInit(nbuf, None, 0, children)

\* ------------------------------------------------------------ arrow export
\* The mutant: the all-null array is returned as soon as one row is null.
ToArrowNullArrayOnAnyNull(c) ==
    LET children == DeriveChildren(c)
        sbuf == IF c.size = 0 THEN <<>> ELSE children[2]
        obuf == IF c.size = 0 THEN <<>> ELSE children[1]
        nbuf == IF c.size = 0 THEN None
                ELSE IF NullCount(c) > 0 THEN Mask(c) ELSE None
    IN  IF NullCount(c) > 0 \/ c.size = 0
        THEN [type |-> "NullArray", length |-> c.size, null_count |-> NullCount(c)]
        ELSE [type |-> "StringArray", length |-> c.size, offsets |-> obuf,
              data |-> sbuf, validity |-> nbuf, null_count |-> NullCount(c)]

\* StringColumn.to_arrow(): pa.NullArray when null_count == len(self), else
\* pa.StringArray.from_buffers(len, obuf, sbuf, nbuf, null_count).
ToArrow(c) ==
    LET children == DeriveChildren(c)
        sbuf == IF c.size = 0 THEN <<>> ELSE children[2]
        obuf == IF c.size = 0 THEN <<>> ELSE children[1]
        nbuf == IF c.size = 0 THEN None
                ELSE IF NullCount(c) > 0 THEN Mask(c) ELSE None
    IN  IF NullCount(c) = c.size
        THEN [type |-> "NullArray", length |-> c.size, null_count |-> NullCount(c)]
        ELSE [type |-> "StringArray", length |-> c.size, offsets |-> obuf,
              data |-> sbuf, validity |-> nbuf, null_count |-> NullCount(c)]

\* ------------------------------------------------------- cast dispatch
\* _str_to_numeric_typecast_functions: target dtype -> conversion.
StrToNumericTypecastFunctions ==
    [d \in {"int8", "int16", "int32", "int64", "float32", "float64", "bool",
            "datetime64[s]", "datetime64[ms]", "datetime64[us]", "datetime64[ns]"} |->
        CASE d = "int8" -> "stoi8"
          [] d = "int16" -> "stoi16"
          [] d = "int32" -> "stoi"
          [] d = "int64" -> "stol"
          [] d = "float32" -> "stof"
          [] d = "float64" -> "stod"
          [] d = "bool" -> "to_booleans"
          [] OTHER -> "timestamp2int"]

\* _numeric_to_str_typecast_functions: source dtype -> conversion.
NumericToStrTypecastFunctions ==
    [d \in {"int8", "int16", "int32", "int64", "float32", "float64", "bool",
            "datetime64[s]", "datetime64[ms]", "datetime64[us]", "datetime64[ns]"} |->
        CASE d = "int8" -> "i8tos"
          [] d = "int16" -> "i16tos"
          [] d = "int32" -> "itos"
          [] d = "int64" -> "ltos"
          [] d = "float32" -> "ftos"
          [] d = "float64" -> "dtos"
          [] d = "bool" -> "from_booleans"
          [] OTHER -> "int2timestamp"]

\* The two tables as the module defines them when it is imported.
ModuleTables ==
    [str_to_numeric |-> StrToNumericTypecastFunctions,
     numeric_to_str |-> NumericToStrTypecastFunctions]

\* ------------------------------------------------------------------ state
VARIABLES
    pc,      \* "new": nothing constructed; "ready": a column; "done": after a call
    col,     \* the column the accessor operates on
    parent,  \* what the accessor's owner (a Series) is bound to
    last,    \* what the last call did and returned
    typecast_functions  \* the module's two cast dispatch tables

vars == <<pc, col, parent, last, typecast_functions>>

\* The owner is bound to the accessor's column until an inplace call
\* rebinds it.
BoundToColumn == [bound |-> "column"]

NoColumn == [base_children |-> <<>>, base_mask |-> None, offset |-> 0,
             size |-> 0, _children |-> None, _nvstrings |-> None,
             _nvcategory |-> None, _indices |-> None]

Init ==
    /\ pc = "new"
    /\ col = NoColumn
    /\ parent = BoundToColumn
    /\ last = [op |-> "none"]
    /\ typecast_functions = ModuleTables

\* The base children a constructor call may be handed over byte set B: none,
\* the children of some rows, or a pair whose offsets child is empty.
ChildrenInputs(B, maxlen) ==
    {<<>>} \cup {ChildrenOf(rows) : rows \in RowSeqsOver(B, maxlen)}
           \cup {<< <<>>, <<>> >>}

RowsOfChildren(children) ==
    IF Len(children) = 0 \/ Len(children[1]) = 0 THEN 0 ELSE Len(children[1]) - 1

\* The validity masks for n base rows: none, or one bit per row (TRUE: valid).
MaskInputs(n) == {None} \cup {Some(m) : m \in [1..n -> BOOLEAN]}

\* StringColumn(mask=mask, size=None, offset=offset, children=children)
ConstructDefaultSize(B, maxlen) ==
    /\ pc = "new"
    /\ \E children \in ChildrenInputs(B, maxlen) :
       \E mask \in MaskInputs(RowsOfChildren(children)) :
       \E offset \in 0..(RowsOfChildren(children) + 1) :
          /\ col' = StringColumnInit(mask, None, offset, children)
          /\ last' = [op |-> "init", size |-> None, offset |-> offset,
                      children |-> children]
    /\ pc' = "ready"
    /\ UNCHANGED typecast_functions
    /\ UNCHANGED parent

\* StringColumn(mask=mask, size=size, offset=offset, children=children): a
\* slice of a base column.
ConstructSlice(B, maxlen) ==
    /\ pc = "new"
    /\ \E rows \in RowSeqsOver(B, maxlen) :
       \E mask \in MaskInputs(Len(rows)) :
       \E offset \in 0..Len(rows) :
       \E size \in 0..(Len(rows) - offset) :
          /\ col' = StringColumnInit(mask, Some(size), offset, ChildrenOf(rows))
          /\ last' = [op |-> "init", size |-> Some(size), offset |-> offset,
                      children |-> ChildrenOf(rows)]
    /\ pc' = "ready"
    /\ UNCHANGED typecast_functions
    /\ UNCHANGED parent

\* A read of col.children.
Children ==
    /\ pc = "ready"
    /\ ValidWindow(col)
    /\ col' = ReadChildren(col)
    /\ last' = [op |-> "children", before |-> col, value |-> ChildrenValue(col)]
    /\ pc' = "done"
    /\ UNCHANGED typecast_functions
    /\ UNCHANGED parent

\* header, frames = col.serialize()
SerializeCall ==
    /\ pc = "ready"
    /\ ValidWindow(col)
    /\ col' = ReadChildren(col)
    /\ last' = [op |-> "serialize", before |-> col,
                header |-> Serialize(col).header, frames |-> Serialize(col).frames]
    /\ pc' = "wire"
    /\ UNCHANGED typecast_functions
    /\ UNCHANGED parent

\* StringColumn.deserialize(header, frames) of what serialize produced.
DeserializeCall ==
    /\ pc = "wire"
    /\ last' = [op |-> "deserialize", before |-> last.before,
                header |-> last.header, frames |-> last.frames,
                out |-> Deserialize(last.header, last.frames)]
    /\ UNCHANGED col
    /\ pc' = "done"
    /\ UNCHANGED typecast_functions
    /\ UNCHANGED parent

\* col.to_arrow(); the children are read only when the column has rows.
ToArrowCall ==
    /\ pc = "ready"
    /\ ValidWindow(col)
    /\ col' = IF col.size = 0 THEN col ELSE ReadChildren(col)
    /\ last' = [op |-> "to_arrow", before |-> col, out |-> ToArrow(col)]
    /\ pc' = "done"
    /\ UNCHANGED typecast_functions
    /\ UNCHANGED parent

Next ==
    \/ ConstructDefaultSize(Bytes, MaxLen)
    \/ ConstructSlice(Bytes, MaxLen)
    \/ Children
    \/ SerializeCall
    \/ DeserializeCall
    \/ ToArrowCall

Spec == Init /\ [][Next]_vars

\* ============================================================ StringMethods
\* Most bytes of one row's string, and the largest count n, in the columns
\* and calls of the accessor.
OpMaxLen == 2
MaxN == 2

\* The bytes of the accessor's columns, the pattern searched and replaced,
\* and its replacement.
OpBytes == {"a"}
Pat == "a"
Repl == "b"

\* ------------------------------------------------------- the legacy handle
\* nvstrings.from_offsets(chars, offsets, size, mask, ncount): the strings
\* object of `size` rows, row r the bytes between offsets r and r + 1, or
\* null (None) where the mask has a 0 bit.
FromOffsets(chars, offsets, size, mask) ==
    [i \in 1..size |->
        IF ~IsNone(mask) /\ ~Get(mask)[i] THEN None
        ELSE Some(RowBytesAt(offsets, chars, i - 1))]

\* What a read of col.nvstrings builds when nothing is cached.
NvStringsHandle(c) ==
    IF c.size = 0 THEN <<>>
    ELSE LET children == ChildrenValue(c)
         IN  FromOffsets(children[2], children[1], c.size, Mask(c))

\* The `nvstrings` property: the column after the read, its caches filled.
ReadNvStrings(c) ==
    IF ~IsNone(c._nvstrings) THEN c
    ELSE LET c1 == IF c.size = 0 THEN c ELSE ReadChildren(c)
         IN  [c1 EXCEPT !._nvstrings = Some(NvStringsHandle(c))]

\* The handle a read of col.nvstrings returns.
NvStrings(c) == Get(ReadNvStrings(c)._nvstrings)

\* ---------------------------------------------------------------- kernels
\* nvstrings.len(ptr): the byte count of each row; a null row gets the
\* placeholder.
LenKernel(strs, placeholder) ==
    [i \in 1..Len(strs) |->
        IF IsNone(strs[i]) THEN placeholder ELSE Len(Get(strs[i]))]

\* nvstrings.contains(pat, devptr=ptr): whether each row holds the byte
\* `pat`; a null row gets the placeholder.
ContainsKernel(strs, pat, placeholder) ==
    [i \in 1..Len(strs) |->
        IF IsNone(strs[i]) THEN placeholder
        ELSE \E j \in 1..Len(Get(strs[i])) : Get(strs[i])[j] = pat]

\* One row with its first n bytes `pat` replaced by `repl` (all when n < 0).
RECURSIVE ReplaceStr(_, _, _, _)
ReplaceStr(str, pat, repl, n) ==
    IF Len(str) = 0 THEN <<>>
    ELSE IF Head(str) = pat /\ n /= 0
         THEN <<repl>> \o ReplaceStr(Tail(str), pat, repl, IF n < 0 THEN n ELSE n - 1)
         ELSE <<Head(str)>> \o ReplaceStr(Tail(str), pat, repl, n)

\* nvstrings.replace(pat, repl, n=n): a new strings object; nulls stay null.
ReplaceKernel(strs, pat, repl, n) ==
    [i \in 1..Len(strs) |->
        IF IsNone(strs[i]) THEN None
        ELSE Some(ReplaceStr(Get(strs[i]), pat, repl, n))]

\* column.build_column(Buffer(out_dev_arr), dtype, mask=mask)
NumericColumn(dtype, data, mask) ==
    [kind |-> "numeric", dtype |-> dtype, data |-> data, mask |-> mask,
     size |-> Len(data), offset |-> 0]

\* Whether row r (0-based) of a numeric column is null.
NumericNull(c, r) == ~IsNone(c.mask) /\ ~Get(c.mask)[r + 1]

\* -------------------------------------------------------------- accessor
\* The mutant: no mask is attached to the output.
OutputMaskNever(c) == None

\* The mask len and contains attach to their output.
OutputMask(c) == IF HasNulls(c) THEN Mask(c) ELSE None

\* The owner of an accessor made by StringColumn.str(): self._parent is None.
NoParent == [bound |-> "none"]

\* _return_or_inplace(new_col, **kwargs) of an accessor whose owner p is a
\* Series, or None: what the owner is bound to afterwards, what is
\* returned, and the error of calling _mimic_inplace on None.
ReturnOrInplace(p, new_col, inplace, expand) ==
    IF inplace
    THEN IF p = NoParent
         THEN [parent |-> p, returned |-> None, error |-> Some("AttributeError")]
         ELSE [parent |-> [bound |-> "new_col", value |-> new_col],
               returned |-> None, error |-> None]
    ELSE IF expand
         THEN IF p = NoParent
              THEN [parent |-> p, returned |-> None, error |-> Some("AttributeError")]
              ELSE [parent |-> p,
                    returned |-> Some([kind |-> "DataFrame", table |-> new_col]),
                    error |-> None]
         ELSE IF p = NoParent
         THEN [parent |-> p,
               returned |-> Some([kind |-> "Column", column |-> new_col]),
               error |-> None]
         ELSE [parent |-> p,
               returned |-> Some([kind |-> "Series", column |-> new_col]),
               error |-> None]

\* The values of the options a call may be given.
CaseValues == {"True", "False", "None"}
FlagValues == {0, 1}
NaValues == {"nan", "False"}
NValues == (0 - MaxN)..MaxN

\* The mutant: `na` is not looked at.
ContainsUnsupportedNoNa(case, flags, na) == case /= "True" \/ flags /= 0

\* contains: whether an option is one that raises NotImplementedError.
ContainsUnsupported(case, flags, na) ==
    case /= "True" \/ flags /= 0 \/ na /= "nan"

\* replace: whether an option is one that raises NotImplementedError.
ReplaceUnsupported(case, flags) == case /= "None" \/ flags /= 0

\* extract: whether an option is one that raises NotImplementedError.
ExtractUnsupported(flags) == flags /= 0

\* The mutant: 0 is handed to the kernel as it is.
NormalizeNKeepZero(n) == n

\* "Pandas treats 0 as all": the n handed to the kernel.
NormalizeN(n) == IF n = 0 THEN 0 - 1 ELSE n

\* A call that raised before it did anything.
Raised(op, args, error) ==
    [op |-> op, args |-> args, before |-> col, parent_before |-> parent,
     outcome |-> error, allocated |-> FALSE, kernel |-> FALSE]

\* A call that ran to its end.
Returned(op, args, allocated, kernel_n, new_col, returned) ==
    [op |-> op, args |-> args, before |-> col, parent_before |-> parent,
     outcome |-> "ok", allocated |-> allocated, kernel |-> TRUE,
     kernel_n |-> kernel_n, new_col |-> new_col, returned |-> returned]

\* col.str.len(inplace=inplace)
LenCall ==
    /\ pc = "ready"
    /\ \E inplace \in BOOLEAN :
       \E placeholder \in {0 - 1, 0} :
          LET new_col == NumericColumn("int32",
                             LenKernel(NvStrings(col), placeholder), OutputMask(col))
              r == ReturnOrInplace(parent, new_col, inplace, FALSE)
          IN  /\ (placeholder = 0 => HasNulls(col))
              /\ col' = ReadNvStrings(col)
              /\ parent' = r.parent
              /\ last' = Returned("len", [inplace |-> inplace], TRUE, None,
                                  new_col, r.returned)
    /\ pc' = "done"
    /\ UNCHANGED typecast_functions

\* col.str.contains(Pat, case=case, flags=flags, na=na, inplace=inplace)
ContainsCall ==
    /\ pc = "ready"
    /\ \E case \in CaseValues : \E flags \in FlagValues : \E na \in NaValues :
       \E inplace \in BOOLEAN : \E placeholder \in BOOLEAN :
          LET args == [case |-> case, flags |-> flags, na |-> na, inplace |-> inplace]
              new_col == NumericColumn("bool",
                             ContainsKernel(NvStrings(col), Pat, placeholder),
                             OutputMask(col))
              r == ReturnOrInplace(parent, new_col, inplace, FALSE)
          IN  IF ContainsUnsupported(case, flags, na)
              THEN /\ ~placeholder
                   /\ last' = Raised("contains", args, "NotImplementedError")
                   /\ UNCHANGED <<col, parent>>
              ELSE /\ (placeholder => HasNulls(col))
                   /\ col' = ReadNvStrings(col)
                   /\ parent' = r.parent
                   /\ last' = Returned("contains", args, TRUE, None, new_col, r.returned)
    /\ pc' = "done"
    /\ UNCHANGED typecast_functions

\* col.str.replace(Pat, Repl, n=n, case=case, flags=flags, inplace=inplace)
ReplaceCall ==
    /\ pc = "ready"
    /\ \E n \in NValues : \E case \in CaseValues : \E flags \in FlagValues :
       \E inplace \in BOOLEAN :
          LET args == [n |-> n, case |-> case, flags |-> flags, inplace |-> inplace]
              kernel_n == NormalizeN(n)
              new_col == [kind |-> "nvstrings",
                          strs |-> ReplaceKernel(NvStrings(col), Pat, Repl, kernel_n)]
              r == ReturnOrInplace(parent, new_col, inplace, FALSE)
          IN  IF ReplaceUnsupported(case, flags)
              THEN /\ last' = Raised("replace", args, "NotImplementedError")
                   /\ UNCHANGED <<col, parent>>
              ELSE /\ col' = ReadNvStrings(col)
                   /\ parent' = r.parent
                   /\ last' = Returned("replace", args, TRUE, Some(kernel_n),
                                       new_col, r.returned)
    /\ pc' = "done"
    /\ UNCHANGED typecast_functions

\* col.str.split(pat=None, n=n, expand=expand, inplace=inplace); the table
\* the kernel returns is kept as the kernel call that makes it.
SplitCall ==
    /\ pc = "ready"
    /\ \E n \in NValues : \E expand \in BOOLEAN : \E inplace \in BOOLEAN :
          LET args == [n |-> n, expand |-> expand, inplace |-> inplace]
              kernel_n == NormalizeN(n)
              new_col == [kind |-> "table", kernel |-> "split",
                          strs |-> NvStrings(col), delimiter |-> None,
                          n |-> kernel_n]
              r == ReturnOrInplace(parent, new_col, inplace, expand)
          IN  IF expand /= TRUE
              THEN /\ last' = Raised("split", args, "NotImplementedError")
                   /\ UNCHANGED <<col, parent>>
              ELSE /\ col' = ReadNvStrings(col)
                   /\ parent' = r.parent
                   /\ last' = Returned("split", args, TRUE, Some(kernel_n),
                                       new_col, r.returned)
    /\ pc' = "done"
    /\ UNCHANGED typecast_functions

\* col.str.extract(pat, flags=flags, expand=expand, inplace=inplace), the
\* pattern having `groups` capture groups; the columns the kernel returns
\* are kept as the kernel call that makes them.
ExtractCall ==
    /\ pc = "ready"
    /\ \E flags \in FlagValues : \E expand \in BOOLEAN : \E inplace \in BOOLEAN :
       \E groups \in {1, 2} :
          LET args == [flags |-> flags, expand |-> expand, inplace |-> inplace,
                       groups |-> groups]
              out == [g \in 1..groups |->
                         [kind |-> "nvstrings", kernel |-> "extract",
                          strs |-> NvStrings(col), group |-> g]]
              r == IF Len(out) = 1 /\ expand = FALSE
                   THEN ReturnOrInplace(parent, out[1], inplace, FALSE)
                   ELSE ReturnOrInplace(parent, out, inplace, expand)
          IN  IF ExtractUnsupported(flags)
              THEN /\ groups = 1
                   /\ last' = Raised("extract", args, "NotImplementedError")
                   /\ UNCHANGED <<col, parent>>
              ELSE /\ col' = ReadNvStrings(col)
                   /\ parent' = r.parent
                   /\ last' = Returned("extract", args, TRUE, None, out, r.returned)
    /\ pc' = "done"
    /\ UNCHANGED typecast_functions

NextOps ==
    \/ ConstructSlice(OpBytes, OpMaxLen)
    \/ LenCall
    \/ ContainsCall
    \/ ReplaceCall
    \/ SplitCall
    \/ ExtractCall

SpecOps == Init /\ [][NextOps]_vars

\* ====================================================== StringMethods.cat
\* Most columns in a sequence passed as `others`.
MaxOthers == 2

\* The byte of every row of the column cat is called on, the byte of every
\* row of the k-th column of `others`, and the values of sep and na_rep.
SelfByte == "a"
OtherBytes == <<"b", "c", "d", "e">>
SepValues == {None, Some(<<"-">>)}
NaRepValues == {None, Some(<<"_">>)}

\* The bytes put between two strings: none when sep is None.
SepBytes(sep) == IF IsNone(sep) THEN <<>> ELSE Get(sep)

\* The strings of `items`, in order, with `sepb` between them.
RECURSIVE JoinStrs(_, _)
JoinStrs(items, sepb) ==
    IF Len(items) = 0 THEN <<>>
    ELSE IF Len(items) = 1 THEN items[1]
    ELSE items[1] \o sepb \o JoinStrs(Tail(items), sepb)

\* The strings a join takes from the rows: a null row gives none, or
\* na_rep when that is given.
RECURSIVE JoinItems(_, _)
JoinItems(strs, na_rep) ==
    IF Len(strs) = 0 THEN <<>>
    ELSE (IF ~IsNone(Head(strs)) THEN <<Get(Head(strs))>>
          ELSE IF IsNone(na_rep) THEN <<>> ELSE <<Get(na_rep)>>)
         \o JoinItems(Tail(strs), na_rep)

\* nvstrings.cat(others=None, sep, na_rep): a strings object of one string,
\* the join of the rows.
NvJoin(strs, sep, na_rep) ==
    <<Some(JoinStrs(JoinItems(strs, na_rep), SepBytes(sep)))>>

\* nvstrings.cat(others, sep, na_rep) on two strings objects of one size:
\* row by row, this row, sep, the other's row; null when either is null and
\* na_rep is None.
NvCat(strs, others, sep, na_rep) ==
    [i \in 1..Len(strs) |->
        IF (IsNone(strs[i]) \/ IsNone(others[i])) /\ IsNone(na_rep) THEN None
        ELSE Some((IF IsNone(strs[i]) THEN Get(na_rep) ELSE Get(strs[i]))
                  \o SepBytes(sep)
                  \o (IF IsNone(others[i]) THEN Get(na_rep) ELSE Get(others[i])))]

\* nvstrings.cat(others, ...) refuses a strings object of another size.
NvCatSizesMatch(strs, others) == Len(others) = Len(strs)

\* The mutant: the frames after the first are left out.
CatFramesFirstOnly(first, rest, sep, na_rep) ==
    [ok |-> TRUE, strs |-> first, cats |-> 0]

\* The mutant: each frame is put before what was gathered so far.
RECURSIVE CatFramesReversed(_, _, _, _)
CatFramesReversed(first, rest, sep, na_rep) ==
    IF Len(rest) = 0 THEN [ok |-> TRUE, strs |-> first, cats |-> 0]
    ELSE IF ~NvCatSizesMatch(first, Head(rest))
         THEN [ok |-> FALSE, strs |-> <<>>, cats |-> 0]
    ELSE LET r == CatFramesReversed(NvCat(Head(rest), first, sep, na_rep),
                                    Tail(rest), sep, na_rep)
         IN  [r EXCEPT !.cats = @ + 1]

\* The loop over a sequence of frames: first = first.cat(frame, sep, na_rep)
\* for each frame after the first.  ok: no cat refused its operand; strs:
\* the strings object gathered; cats: the cats that returned an output.
RECURSIVE CatFrames(_, _, _, _)
CatFrames(first, rest, sep, na_rep) ==
    IF Len(rest) = 0 THEN [ok |-> TRUE, strs |-> first, cats |-> 0]
    ELSE IF ~NvCatSizesMatch(first, Head(rest))
         THEN [ok |-> FALSE, strs |-> <<>>, cats |-> 0]
    ELSE LET r == CatFrames(NvCat(first, Head(rest), sep, na_rep),
                            Tail(rest), sep, na_rep)
         IN  [r EXCEPT !.cats = @ + 1]

\* The mutant: the single string is never taken out of its column.
CatUnwrapsNever(out_len, others_is_none) == FALSE

\* Whether cat returns out[0] in place of out.
CatUnwraps(out_len, others_is_none) == out_len = 1 /\ others_is_none

\* A strings object of m rows of byte b, row z null (none when z = 0).
OtherColumn(m, z, b) ==
    [i \in 1..m |-> IF i = z THEN None ELSE Some(<<b>>)]

\* The shapes (rows, null row) of the columns passed as `others`.
OtherShapes == {sh \in (0..MaxRows) \X (0..MaxRows) : sh[2] <= sh[1]}

\* The values of `others`: None, one column (a StringColumn, a Series, an
\* Index), a list of strings, an accessor, or a sequence of columns.
OthersInputs ==
    {[kind |-> "none"], [kind |-> "accessor"]}
    \cup {[kind |-> k, strs |-> OtherColumn(sh[1], sh[2], OtherBytes[1])] :
             k \in {"column", "strings"}, sh \in OtherShapes}
    \cup UNION {{[kind |-> "frames",
                  frames |-> [j \in 1..k |->
                                 OtherColumn(shs[j][1], shs[j][2], OtherBytes[j])]] :
                    shs \in [1..k -> OtherShapes]} : k \in 1..MaxOthers}

\* A column of m rows of SelfByte under a mask, nothing sliced off.
ConstructWhole ==
    /\ pc = "new"
    /\ \E m \in 0..MaxRows : \E mask \in MaskInputs(m) :
          LET children == ChildrenOf([i \in 1..m |-> <<SelfByte>>])
          IN  /\ col' = StringColumnInit(mask, None, 0, children)
              /\ last' = [op |-> "init", size |-> None, offset |-> 0,
                          children |-> children]
    /\ pc' = "ready"
    /\ UNCHANGED typecast_functions
    /\ UNCHANGED parent

\* A cat call that raised: `error`, after `cats` cats of frames returned.
CatRaised(args, error, cats, p) ==
    [op |-> "cat", args |-> args, before |-> col, parent_before |-> parent,
     outcome |-> error, cats |-> cats, returned |-> None, parent_after |-> p]

\* col.str.cat(others=others, sep=sep, na_rep=na_rep, inplace=inplace)
CatCall ==
    /\ pc = "ready"
    /\ \E others \in OthersInputs : \E sep \in SepValues :
       \E na_rep \in NaRepValues : \E inplace \in BOOLEAN :
          LET args == [others |-> others, sep |-> sep, na_rep |-> na_rep,
                       inplace |-> inplace]
              strs == NvStrings(col)
              \* lines 207-281: `others` turned into a strings object
              conv == IF others.kind = "none"
                      THEN [ok |-> TRUE, strs |-> <<>>, cats |-> 0]
                      ELSE IF others.kind = "frames"
                      THEN CatFrames(others.frames[1], Tail(others.frames), sep, na_rep)
                      ELSE [ok |-> TRUE, strs |-> others.strs, cats |-> 0]
              \* lines 283-285
              data == IF others.kind = "none" THEN NvJoin(strs, sep, na_rep)
                      ELSE NvCat(strs, conv.strs, sep, na_rep)
              new_col == [kind |-> "nvstrings", strs |-> data]
              r == ReturnOrInplace(parent, new_col, inplace, FALSE)
          IN  IF others.kind = "accessor"
              THEN /\ ~inplace /\ IsNone(sep) /\ IsNone(na_rep)
                   /\ last' = CatRaised(args, "ValueError", 0, parent)
                   /\ UNCHANGED <<col, parent>>
              ELSE IF ~conv.ok
              THEN /\ last' = CatRaised(args, "ShapeMismatch", conv.cats, parent)
                   /\ UNCHANGED <<col, parent>>
              ELSE IF others.kind /= "none" /\ ~NvCatSizesMatch(strs, conv.strs)
              THEN /\ last' = CatRaised(args, "ShapeMismatch", conv.cats, parent)
                   /\ col' = ReadNvStrings(col)
                   /\ UNCHANGED parent
              ELSE IF IsNone(r.returned)
              THEN \* line 288: len(out) of the None an inplace call gets
                   /\ last' = CatRaised(args, "TypeError", conv.cats + 1, r.parent)
                   /\ col' = ReadNvStrings(col)
                   /\ parent' = r.parent
              ELSE /\ last' = [op |-> "cat", args |-> args, before |-> col,
                               parent_before |-> parent, outcome |-> "ok",
                               cats |-> conv.cats + 1,
                               returned |->
                                  IF CatUnwraps(Len(data), others.kind = "none")
                                  THEN Some([kind |-> "str", value |-> Get(data[1])])
                                  ELSE r.returned,
                               parent_after |-> r.parent]
                   /\ col' = ReadNvStrings(col)
                   /\ parent' = r.parent
    /\ pc' = "done"
    /\ UNCHANGED typecast_functions

NextCat ==
    \/ ConstructWhole
    \/ CatCall

SpecCat == Init /\ [][NextCat]_vars

\* ========================================== StringColumn.as_numerical_column
\* The texts a row of a column that is cast may hold: "1" stands for a text
\* whose datetime format can be guessed, "x" for one whose format cannot.
CastStrs == {<<>>, <<"1">>, <<"1", "1">>, <<"x">>}

\* The target dtypes a cast is asked for: the registered ones and some that
\* are not.
CastDtypes ==
    DOMAIN StrToNumericTypecastFunctions
      \cup {"datetime64[D]", "uint8", "uint64", "float16"}

\* mem_dtype.type is np.datetime64
IsDatetime(dtype) ==
    dtype \in {"datetime64[D]", "datetime64[s]", "datetime64[ms]",
               "datetime64[us]", "datetime64[ns]"}

\* The `format` keyword of a cast: absent (None), or present with a value
\* that is a format or Python's None.
FormatArgs == {None, Some(Some(<<"%", "%", "%">>)), Some(None)}

\* self.notna(): one boolean per row of the window.
NotNa(c) == [i \in 1..c.size |-> RowValid(c, i - 1)]

\* self[mask]: the texts of the rows the boolean mask selects, in row order.
ApplyBooleanMask(c, m) ==
    LET children == DeriveChildren(c)
        idx == SelectSeq([i \in 1..c.size |-> i], LAMBDA i : m[i])
    IN  [k \in 1..Len(idx) |-> RowBytesAt(children[1], children[2], idx[k] - 1)]

\* pd.core.tools.datetimes._guess_datetime_format(text): a format that
\* depends on the text, or None when none can be guessed.
GuessDatetimeFormat(text) ==
    IF Len(text) > 0 /\ \A i \in 1..Len(text) : text[i] = "1"
    THEN Some([i \in 1..Len(text) |-> "%"])
    ELSE None

\* The mutant: the last of the non-null rows is the one looked at.
LastNotNa(valid) == valid[Len(valid)]

\* self[self.notna()][0]: the first of the non-null rows.
FirstNotNa(valid) == valid[1]

\* The mutant: datetime64[D] is handed to timestamp2int like the other units.
TypecastLookupAnyDatetime(table, dtype) ==
    IF dtype \in DOMAIN table THEN Some(table[dtype])
    ELSE IF IsDatetime(dtype) THEN Some("timestamp2int")
    ELSE None

\* _str_to_numeric_typecast_functions[str_dtype]: the conversion, or None
\* for the KeyError of a dtype that is not a key.
TypecastLookup(table, dtype) ==
    IF dtype \in DOMAIN table THEN Some(table[dtype]) ELSE None

\* The conversion fn(self, **kwargs).  timestamp2int fails as a whole when
\* the format it is given is None; given no format at all it either fails
\* or uses a format of its own (no_format_fails).  Every row of the output
\* is the row's text converted by the one format, a null row null.
Conversion(fn, c, kwargs, no_format_fails) ==
    LET texts == ApplyBooleanMask(c, [i \in 1..c.size |-> TRUE])
        by == IF fn /= "timestamp2int" THEN Some(fn)
              ELSE IF IsNone(kwargs.format) THEN Some("default")
              ELSE Get(kwargs.format)
    IN  IF fn = "timestamp2int"
           /\ (IsNone(by) \/ (IsNone(kwargs.format) /\ no_format_fails))
        THEN [outcome |-> "ParseFailure", out |-> None]
        ELSE [outcome |-> "ok",
              out |-> Some([kind |-> "numeric", dtype |-> kwargs.dtype,
                            rows |-> [i \in 1..c.size |->
                                         IF RowValid(c, i - 1)
                                         THEN Some([text |-> texts[i], by |-> Get(by)])
                                         ELSE None]])]

\* A cast that raised before a conversion was called.
CastFailed(error, guesses, guess_text) ==
    [outcome |-> error, guesses |-> guesses, guess_text |-> guess_text,
     kernel |-> None, kernel_kwargs |-> None, out |-> None]

\* as_numerical_column(dtype, **kwargs) against the dispatch table `table`.
AsNumericalColumn(c, dtype, kwargs, table, no_format_fails) ==
    LET infer == IsDatetime(dtype) /\ IsNone(kwargs.format) /\ c.size > 0
        valid == ApplyBooleanMask(c, NotNa(c))
    IN  IF infer /\ Len(valid) = 0
        THEN CastFailed("IndexError", 0, None)
        ELSE LET fmt == IF infer THEN Some(GuessDatetimeFormat(FirstNotNa(valid)))
                        ELSE kwargs.format
                 kw == [format |-> fmt, dtype |-> dtype]
                 guesses == IF infer THEN 1 ELSE 0
                 guess_text == IF infer THEN Some(FirstNotNa(valid)) ELSE None
                 fn == TypecastLookup(table, dtype)
             IN  IF IsNone(fn)
                 THEN CastFailed("KeyError", guesses, guess_text)
                 ELSE LET conv == Conversion(Get(fn), c, kw, no_format_fails)
                      IN  [outcome |-> conv.outcome, guesses |-> guesses,
                           guess_text |-> guess_text, kernel |-> fn,
                           kernel_kwargs |-> Some(kw), out |-> conv.out]

\* StringColumn(mask, size, offset, children): a window of a base column
\* whose rows hold the texts of CastStrs.
ConstructCastColumn ==
    /\ pc = "new"
    /\ \E rows \in SeqsUpTo(CastStrs, MaxRows) :
       \E mask \in MaskInputs(Len(rows)) :
       \E offset \in 0..Len(rows) :
       \E size \in 0..(Len(rows) - offset) :
          /\ col' = StringColumnInit(mask, Some(size), offset, ChildrenOf(rows))
          /\ last' = [op |-> "init", size |-> Some(size), offset |-> offset,
                      children |-> ChildrenOf(rows)]
    /\ pc' = "ready"
    /\ UNCHANGED <<parent, typecast_functions>>

\* col.as_numerical_column(dtype) and col.as_numerical_column(dtype, format=f)
AsNumericalColumnCall ==
    /\ pc = "ready"
    /\ \E dtype \in CastDtypes : \E format \in FormatArgs :
       \E no_format_fails \in BOOLEAN :
          LET r == AsNumericalColumn(col, dtype, [format |-> format],
                                     typecast_functions.str_to_numeric,
                                     no_format_fails)
          IN  last' = [op |-> "as_numerical_column", before |-> col,
                       args |-> [dtype |-> dtype, format |-> format],
                       outcome |-> r.outcome, guesses |-> r.guesses,
                       guess_text |-> r.guess_text, kernel |-> r.kernel,
                       kernel_kwargs |-> r.kernel_kwargs, out |-> r.out]
    /\ pc' = "done"
    /\ UNCHANGED <<col, parent, typecast_functions>>

NextCast ==
    \/ ConstructCastColumn
    \/ AsNumericalColumnCall

SpecCast == Init /\ [][NextCast]_vars

\* ===================================================== StringMethods.wrap
\* A keyword option of wrap: not passed, or passed as True or as False.
OptValues == {"absent", "True", "False"}

\* The width passed: an integer, or None for a value that is_integer rejects.
WidthValues == {Some(2), None}

\* The rows of a column as a libcudf kernel sees them: null, or the bytes.
ColumnRows(c) ==
    LET children == DeriveChildren(c)
    IN  [i \in 1..c.size |->
            IF RowValid(c, i - 1)
            THEN Some(RowBytesAt(children[1], children[2], i - 1))
            ELSE None]

\* The checks of wrap in the order the code makes them: the error raised,
\* or "ok" when the kernel is reached.  kwargs.get defaults an absent
\* replace_whitespace and drop_whitespace to True; the check under
\* break_on_hyphens tests break_long_words, as the one before it does.
WrapChecks(width, o) ==
    IF IsNone(width) THEN "TypeError"
    ELSE IF o.expand_tabs = "True" THEN "NotImplementedError"
    ELSE IF o.replace_whitespace = "False" THEN "NotImplementedError"
    ELSE IF o.drop_whitespace = "False" THEN "NotImplementedError"
    ELSE IF o.break_long_words = "True" THEN "NotImplementedError"
    ELSE IF o.break_long_words = "True" THEN "NotImplementedError"
    ELSE "ok"

\* col.str.wrap(width, expand_tabs=.., replace_whitespace=.., ..., inplace=..)
WrapCall ==
    /\ pc = "ready"
    /\ \E width \in WidthValues : \E inplace \in BOOLEAN :
       \E o \in [{"expand_tabs", "replace_whitespace", "drop_whitespace",
                  "break_long_words", "break_on_hyphens"} -> OptValues] :
          LET args == [width |-> width, options |-> o, inplace |-> inplace]
              new_col == [kind |-> "strings", kernel |-> "wrap",
                          rows |-> ColumnRows(col), width |-> width]
              r == ReturnOrInplace(parent, new_col, inplace, FALSE)
          IN  IF WrapChecks(width, o) /= "ok"
              THEN /\ last' = Raised("wrap", args, WrapChecks(width, o))
                   /\ UNCHANGED parent
              ELSE /\ parent' = r.parent
                   /\ last' = Returned("wrap", args, TRUE, None, new_col, r.returned)
    /\ pc' = "done"
    /\ UNCHANGED <<col, typecast_functions>>

NextWrap ==
    \/ ConstructWhole
    \/ WrapCall

SpecWrap == Init /\ [][NextWrap]_vars

\* ================================== the accessor's other operations
\* The result of a kernel that is modelled only as the call that makes it.
KernelOutput(kind, kernel, rows) == [kind |-> kind, kernel |-> kernel, rows |-> rows]

\* The mutant: the predicates hand their keyword arguments on.
PredicateForwardedAll(kwargs) == kwargs

\* The keyword arguments a character-class predicate hands to
\* _return_or_inplace: none, so inplace and expand are at their defaults.
PredicateForwarded(kwargs) == [inplace |-> FALSE, expand |-> FALSE]

\* The keyword arguments the other operations hand on: **kwargs.
Forwarded(kwargs) == kwargs

\* An operation that calls `kernel` and returns through _return_or_inplace
\* with the keyword arguments fwd, on an accessor owned by `owner`.
AccessorReturn(op, kwargs, fwd, owner, new_col) ==
    LET r == ReturnOrInplace(owner, new_col, fwd.inplace, fwd.expand)
    IN  /\ parent' = IF owner = NoParent THEN parent ELSE r.parent
        /\ last' = [op |-> op, args |-> kwargs, before |-> col,
                    parent_before |-> parent, owner |-> owner,
                    outcome |-> IF IsNone(r.error) THEN "ok" ELSE Get(r.error),
                    allocated |-> TRUE, kernel |-> TRUE, kernel_n |-> None,
                    new_col |-> new_col, returned |-> r.returned]

\* col.str.lower(inplace=inplace)
LowerCall ==
    /\ pc = "ready"
    /\ \E inplace \in BOOLEAN :
          LET kwargs == [inplace |-> inplace, expand |-> FALSE]
          IN  AccessorReturn("lower", kwargs, Forwarded(kwargs), parent,
                             KernelOutput("nvstrings", "lower", NvStrings(col)))
    /\ col' = ReadNvStrings(col)
    /\ pc' = "done"
    /\ UNCHANGED typecast_functions

\* col.str.slice_from(starts, stops, inplace=inplace)
SliceFromCall ==
    /\ pc = "ready"
    /\ \E inplace \in BOOLEAN :
          LET kwargs == [inplace |-> inplace, expand |-> FALSE]
          IN  AccessorReturn("slice_from", kwargs, Forwarded(kwargs), parent,
                             KernelOutput("strings", "slice_from", ColumnRows(col)))
    /\ pc' = "done"
    /\ UNCHANGED <<col, typecast_functions>>

\* col.str.slice_replace(start, stop, repl, inplace=inplace)
SliceReplaceCall ==
    /\ pc = "ready"
    /\ \E inplace \in BOOLEAN :
          LET kwargs == [inplace |-> inplace, expand |-> FALSE]
          IN  AccessorReturn("slice_replace", kwargs, Forwarded(kwargs), parent,
                             KernelOutput("strings", "slice_replace", ColumnRows(col)))
    /\ pc' = "done"
    /\ UNCHANGED <<col, typecast_functions>>

\* col.str.insert(start, repl, inplace=inplace)
InsertCall ==
    /\ pc = "ready"
    /\ \E inplace \in BOOLEAN :
          LET kwargs == [inplace |-> inplace, expand |-> FALSE]
          IN  AccessorReturn("insert", kwargs, Forwarded(kwargs), parent,
                             KernelOutput("strings", "insert", ColumnRows(col)))
    /\ pc' = "done"
    /\ UNCHANGED <<col, typecast_functions>>

\* The character-class predicates.
Predicates == {"isdecimal", "isalnum", "isalpha", "isdigit", "isnumeric"}

\* series.str.isalpha(inplace=.., expand=..) and the like, and the same on
\* the accessor col.str() that has no owner.
PredicateCall ==
    /\ pc = "ready"
    /\ \E name \in Predicates : \E inplace \in BOOLEAN : \E expand \in BOOLEAN :
       \E owner \in {parent, NoParent} :
          LET kwargs == [inplace |-> inplace, expand |-> expand]
          IN  AccessorReturn(name, kwargs, PredicateForwarded(kwargs), owner,
                             KernelOutput("bool", name, ColumnRows(col)))
    /\ pc' = "done"
    /\ UNCHANGED <<col, typecast_functions>>

NextAccessor ==
    \/ ConstructWhole
    \/ LenCall
    \/ ContainsCall
    \/ ReplaceCall
    \/ LowerCall
    \/ SliceFromCall
    \/ SliceReplaceCall
    \/ InsertCall
    \/ WrapCall
    \/ CatCall
    \/ PredicateCall

SpecAccessor == Init /\ [][NextAccessor]_vars

\* ============================================ the caches of a StringColumn
\* Most operations on one column in a behaviour.
MaxOps == 3

\* nvcategory.from_strings(strs): the distinct strings and the rows.
NvCategoryFromStrings(strs) ==
    [keys |-> {Get(strs[i]) : i \in {j \in 1..Len(strs) : ~IsNone(strs[j])}},
     strs |-> strs]

\* nvcategory.values(): for each row the position of its string among the
\* sorted keys (a shorter string sorts first), -1 for a null row.
CategoryValues(cat) ==
    [i \in 1..Len(cat.strs) |->
        IF IsNone(cat.strs[i]) THEN 0 - 1
        ELSE Cardinality({k \in cat.keys : Len(k) < Len(Get(cat.strs[i]))})]

\* The `nvcategory` property: the column after the read.
ReadNvCategory(c) ==
    IF ~IsNone(c._nvcategory) THEN c
    ELSE [ReadNvStrings(c) EXCEPT
             !._nvcategory = Some(NvCategoryFromStrings(NvStrings(c)))]

\* The `indices` property: the column after the read.
ReadIndices(c) ==
    IF ~IsNone(c._indices) THEN c
    ELSE [ReadNvCategory(c) EXCEPT
             !._indices = Some(CategoryValues(Get(ReadNvCategory(c)._nvcategory)))]

\* The mutant: the handles are kept when the children are replaced.
SetBaseChildrenKeepsHandles(c, value) ==
    [c EXCEPT !.base_children = value, !._children = None]

\* set_base_children(value): the base class installs the children and drops
\* the derived pair; the handles are dropped after it.
SetBaseChildren(c, value) ==
    [c EXCEPT !.base_children = value, !._children = None,
              !._indices = None, !._nvcategory = None, !._nvstrings = None]

\* set_base_mask(value): the base class installs the mask and drops what
\* was derived; the handles are dropped after it.
SetBaseMask(c, value) ==
    [c EXCEPT !.base_mask = value, !._children = None,
              !._indices = None, !._nvcategory = None, !._nvstrings = None]

\* _set_mask(value): the handles are dropped, then the base class installs
\* the mask.
SetMask(c, value) ==
    [c EXCEPT !._nvstrings = None, !._nvcategory = None, !._indices = None,
              !.base_mask = value, !._children = None]

\* _mimic_inplace(other_col, inplace): inplace, the base class makes the
\* column take other_col's buffers and window, and the handles of
\* other_col are taken after it.
MimicInplace(c, other_col, inplace) ==
    IF inplace
    THEN [c EXCEPT !.base_children = other_col.base_children,
                   !.base_mask = other_col.base_mask,
                   !.offset = other_col.offset,
                   !.size = other_col.size,
                   !._children = None,
                   !._nvstrings = other_col._nvstrings,
                   !._nvcategory = other_col._nvcategory,
                   !._indices = other_col._indices]
    ELSE c

\* The operations done on the column so far, and the reads of `children`
\* since the column was constructed or last mutated.
OpsDone == IF pc = "live" THEN last.step ELSE 0
ChildrenReads == IF pc = "live" THEN last.reads ELSE 0

\* A column may be operated on until MaxOps operations are done.
Live == pc \in {"ready", "live"} /\ OpsDone < MaxOps

\* What an operation on the column leaves in `last`.
CacheOp(op, reads, computed, value) ==
    [op |-> op, step |-> OpsDone + 1, reads |-> reads, computed |-> computed,
     value |-> value]

\* col.children
ChildrenRead ==
    /\ Live
    /\ col' = ReadChildren(col)
    /\ last' = CacheOp("children", ChildrenReads + 1, IsNone(col._children),
                       Some(ChildrenValue(col)))
    /\ pc' = "live"
    /\ UNCHANGED <<parent, typecast_functions>>

\* col.set_base_children(value), the value of as many rows as the base has.
SetBaseChildrenCall ==
    /\ Live
    /\ \E rows \in RowSeqsOver(OpBytes, MaxLen) :
          /\ Len(rows) = BaseRows(col)
          /\ col' = SetBaseChildren(col, ChildrenOf(rows))
    /\ last' = CacheOp("set_base_children", 0, FALSE, None)
    /\ pc' = "live"
    /\ UNCHANGED <<parent, typecast_functions>>

\* col.set_base_mask(value)
SetBaseMaskCall ==
    /\ Live
    /\ \E mask \in MaskInputs(BaseRows(col)) : col' = SetBaseMask(col, mask)
    /\ last' = CacheOp("set_base_mask", 0, FALSE, None)
    /\ pc' = "live"
    /\ UNCHANGED <<parent, typecast_functions>>

\* col._set_mask(value)
SetMaskCall ==
    /\ Live
    /\ \E mask \in MaskInputs(BaseRows(col)) : col' = SetMask(col, mask)
    /\ last' = CacheOp("_set_mask", 0, FALSE, None)
    /\ pc' = "live"
    /\ UNCHANGED <<parent, typecast_functions>>

\* The columns handed to _mimic_inplace: StringColumn() or a whole column,
\* its handles read or not.
OtherColumns ==
    UNION {{o, ReadNvStrings(o), ReadIndices(o)} :
           o \in {StringColumnInit(None, None, 0, <<>>)} \cup
                 UNION {{StringColumnInit(mask, None, 0, ChildrenOf(rows)) :
                           mask \in MaskInputs(Len(rows))} :
                        rows \in {<<>>, <<<<"a">>>>, <<<<>>, <<"a">>>>}}}

\* col._mimic_inplace(other_col, inplace=inplace)
MimicInplaceCall ==
    /\ Live
    /\ \E other_col \in OtherColumns : \E inplace \in BOOLEAN :
          /\ col' = MimicInplace(col, other_col, inplace)
          /\ last' = CacheOp("_mimic_inplace",
                             IF inplace THEN 0 ELSE ChildrenReads, FALSE,
                             None)
    /\ pc' = "live"
    /\ UNCHANGED <<parent, typecast_functions>>

\* col.nvstrings, col.nvcategory, col.indices: a read that builds the handle
\* of a column with rows reads `children`.
HandleRead ==
    /\ Live
    /\ \E h \in {"nvstrings", "nvcategory", "indices"} :
          LET after == CASE h = "nvstrings" -> ReadNvStrings(col)
                         [] h = "nvcategory" -> ReadNvCategory(col)
                         [] h = "indices" -> ReadIndices(col)
              value == CASE h = "nvstrings" -> after._nvstrings
                         [] h = "nvcategory" -> after._nvcategory
                         [] h = "indices" -> after._indices
              built == IsNone(col._nvstrings) /\ after._nvstrings /= col._nvstrings
                         /\ col.size > 0
          IN  /\ col' = after
              /\ last' = CacheOp(h, IF built THEN ChildrenReads + 1 ELSE ChildrenReads,
                                 built /\ IsNone(col._children), value)
    /\ pc' = "live"
    /\ UNCHANGED <<parent, typecast_functions>>

NextCache ==
    \/ ConstructSlice(OpBytes, MaxLen)
    \/ ChildrenRead
    \/ SetBaseChildrenCall
    \/ SetBaseMaskCall
    \/ SetMaskCall
    \/ MimicInplaceCall
    \/ HandleRead

SpecCache == Init /\ [][NextCache]_vars

\* ======================================== StringColumn.binary_operator
\* The operators a binary operation is asked for.
Binops == {"add", "sub", "mul", "eq", "lt"}

\* The other operand: a StringColumn of up to MaxRows rows, or something
\* that is not a StringColumn (a numerical column, a Python scalar, None).
BinopOperands ==
    UNION {{[kind |-> "StringColumn",
             column |-> StringColumnInit(mask, None, 0,
                           ChildrenOf([i \in 1..m |-> <<OtherBytes[1]>>]))] :
              mask \in MaskInputs(m)} : m \in 0..MaxRows}
    \cup {[kind |-> k] : k \in {"NumericalColumn", "int", "str", "None"}}

\* isinstance(x, StringColumn)
IsStringColumn(x) == x.kind = "StringColumn"

\* lhs.str().cat(others=rhs) with rhs a StringColumn: str() is defined by
\* StringColumn only and makes an accessor without owner, so the column
\* cat builds is returned as it is; cat raises when the sizes differ.
StrCat(lhs, rhs) ==
    IF ~IsStringColumn(lhs)
    THEN [outcome |-> "AttributeError", cat |-> None, returned |-> None]
    ELSE LET strs == NvStrings(lhs.column)
             others == NvStrings(rhs.column)
         IN  IF ~NvCatSizesMatch(strs, others)
             THEN [outcome |-> "ShapeMismatch",
                   cat |-> Some([lhs |-> lhs, rhs |-> rhs]), returned |-> None]
             ELSE [outcome |-> "ok",
                   cat |-> Some([lhs |-> lhs, rhs |-> rhs]),
                   returned |->
                      ReturnOrInplace(NoParent,
                          [kind |-> "nvstrings", strs |-> NvCat(strs, others, None, None)],
                          FALSE, FALSE).returned]

\* self.binary_operator(binop, rhs, reflect): the operands are swapped when
\* reflect, and the test is made on what is then the right one.
BinaryOperator(self, binop, rhs, reflect) ==
    LET lhs1 == IF reflect THEN rhs ELSE self
        rhs1 == IF reflect THEN self ELSE rhs
    IN  IF IsStringColumn(rhs1) /\ binop = "add"
        THEN StrCat(lhs1, rhs1)
        ELSE [outcome |-> "TypeError", cat |-> None, returned |-> None]

\* col.binary_operator(binop, rhs, reflect=reflect)
BinaryOperatorCall ==
    /\ pc = "ready"
    /\ \E binop \in Binops : \E rhs \in BinopOperands : \E reflect \in BOOLEAN :
          LET self == [kind |-> "StringColumn", column |-> col]
              r == BinaryOperator(self, binop, rhs, reflect)
          IN  /\ last' = [op |-> "binary_operator", binop |-> binop, rhs |-> rhs,
                          reflect |-> reflect, before |-> col,
                          outcome |-> r.outcome, cat |-> r.cat,
                          returned |-> r.returned]
              /\ col' = IF IsNone(r.cat) THEN col ELSE ReadNvStrings(col)
    /\ pc' = "done"
    /\ UNCHANGED <<parent, typecast_functions>>

NextBinop ==
    \/ ConstructWhole
    \/ BinaryOperatorCall

SpecBinop == Init /\ [][NextBinop]_vars

\* ================================================ StringColumn.base_size
\* The itemsize of the dtype of the offsets child (int32).
OffsetsItemsize == 4

\* int(a / b), b > 0: the quotient cut towards zero.
IntOfQuotient(a, b) == IF a >= 0 THEN a \div b ELSE 0 - ((0 - a) \div b)

\* The `base_size` property: 0 without base children, otherwise the element
\* count of the offsets child less one, divided by the itemsize of its dtype.
BaseSize(c) ==
    IF Len(c.base_children) = 0 THEN 0
    ELSE IntOfQuotient(Len(c.base_children[1]) - 1, OffsetsItemsize)

\* col.base_size
BaseSizeCall ==
    /\ pc = "ready"
    /\ last' = [op |-> "base_size", before |-> col, value |-> BaseSize(col)]
    /\ pc' = "done"
    /\ UNCHANGED <<col, parent, typecast_functions>>

NextBase ==
    \/ ConstructDefaultSize(Bytes, MaxLen)
    \/ ConstructSlice(Bytes, MaxLen)
    \/ BaseSizeCall

SpecBase == Init /\ [][NextBase]_vars

\* ------------------------------------------------------------ claim helpers
\* The bytes of row r (0-based) under an (offsets, chars) pair.
RowBytes(offsets, chars, r) == SubSeq(chars, offsets[r + 1] + 1, offsets[r + 2])

\* The fast path of `children`: the window is the whole base column.
Aligned(c) == c.offset = 0 /\ Len(c.base_children[1]) = c.size + 1

\* ----------------------------------------------------------------- claims
\* C1: for a column with children and a window inside the base rows, the
\* derived (offsets, data) pair has offsets[0] = 0 and offsets[size] = the
\* length of the data window; offsets is base_offsets[offset..offset+size]
\* minus base_offsets[offset], data is base_data from byte
\* base_offsets[offset] on; an aligned column gets its base children as
\* they are.
C1_ChildrenContract ==
    (last.op = "children" /\ Len(last.before.base_children) = 2) =>
        LET c == last.before
            offsets == last.value[1]
            data == last.value[2]
            base_offsets == c.base_children[1]
            base_data == c.base_children[2]
            delta == base_offsets[c.offset + 1]
        IN  /\ Len(offsets) = c.size + 1
            /\ offsets[1] = 0
            /\ offsets[c.size + 1] = Len(data)
            /\ \A i \in 0..c.size :
                   offsets[i + 1] = base_offsets[c.offset + i + 1] - delta
            /\ data = SubSeq(base_data, delta + 1, delta + Len(data))
            /\ Aligned(c) => last.value = c.base_children

\* C1's case: the re-derivation path, on a window that starts after row 0
\* at a byte other than 0 and holds bytes.
C1_Witness ==
    /\ last.op = "children"
    /\ Len(last.before.base_children) = 2
    /\ ~Aligned(last.before)
    /\ last.before.offset > 0
    /\ last.before.size > 0
    /\ last.before.base_children[1][last.before.offset + 1] > 0
    /\ Len(last.value[2]) > 0

\* C2: the bytes the derived view gives logical row r are the bytes of base
\* row offset + r, for every r in [0, size), and reading the view leaves
\* base_children as they were.
C2_SliceViewEquivalence ==
    (last.op = "children" /\ Len(last.before.base_children) = 2) =>
        LET c == last.before
        IN  /\ \A r \in 0..(c.size - 1) :
                   RowBytes(last.value[1], last.value[2], r)
                     = RowBytes(c.base_children[1], c.base_children[2], c.offset + r)
            /\ col.base_children = c.base_children

\* C2's case: a row of a window that starts after row 0, whose bytes differ
\* from those of base row 0.
C2_Witness ==
    /\ last.op = "children"
    /\ Len(last.before.base_children) = 2
    /\ last.before.offset > 0
    /\ last.before.size > 0
    /\ RowBytes(last.value[1], last.value[2], 0) /= <<>>
    /\ RowBytes(last.value[1], last.value[2], 0)
         /= RowBytes(last.before.base_children[1], last.before.base_children[2], 0)

\* C3: deserialize(serialize(c)) has c's row count, c's null positions and
\* c's bytes row by row; frame_count is the number of frames; the validity
\* frame is there exactly when null_count > 0, as the third frame, and is
\* the column's mask.
C3_SerializeRoundTrip ==
    last.op = "deserialize" =>
        LET c == last.before
            out == last.out
            cc == DeriveChildren(c)
            oc == DeriveChildren(out)
        IN  /\ out.size = c.size
            /\ \A r \in 0..(c.size - 1) :
                   /\ RowValid(out, r) = RowValid(c, r)
                   /\ RowBytes(oc[1], oc[2], r) = RowBytes(cc[1], cc[2], r)
            /\ oc = cc
            /\ last.header.frame_count = Len(last.frames)
            /\ Len(last.frames) = Len(cc) + (IF last.header.null_count > 0 THEN 1 ELSE 0)
            /\ last.header.null_count > 0 =>
                   /\ Len(last.frames) = 3
                   /\ last.frames[3] = Get(Mask(c))
                   /\ out.base_mask = Mask(c)
            /\ last.header.null_count = 0 => IsNone(out.base_mask)

\* C3's case: a sliced column with a null row went through the round trip.
C3_Witness ==
    /\ last.op = "deserialize"
    /\ last.before.offset > 0
    /\ last.before.size > 0
    /\ last.header.null_count > 0
    /\ Len(last.frames) = 3
    /\ Len(last.out.base_children[2]) > 0

\* C4, as claimed: a column constructed without an explicit size has, for
\* every offset passed, a non-negative size, equal to
\* base_offsets.size - 1 - offset when children are present and 0 when they
\* are absent or the offsets child is empty.
C4_SizeInvariantEveryOffset ==
    (last.op = "init" /\ IsNone(last.size)) =>
        /\ col.size >= 0
        /\ IF Len(last.children) = 2 /\ Len(last.children[1]) > 0
           THEN col.size = Len(last.children[1]) - 1 - last.offset
           ELSE col.size = 0

\* C4, amended: the size is base_offsets.size - 1 - offset when children
\* with a non-empty offsets child are present and 0 - offset otherwise; it
\* is non-negative exactly when the offset is at most the base row count,
\* and then it is 0 for absent children or an empty offsets child.
C4_SizeInvariant ==
    (last.op = "init" /\ IsNone(last.size)) =>
        LET rows == IF Len(last.children) = 2 /\ Len(last.children[1]) > 0
                    THEN Len(last.children[1]) - 1 ELSE 0
        IN  /\ col.size = rows - last.offset
            /\ col.size >= 0 <=> last.offset <= rows
            /\ (last.offset <= rows /\ rows = 0) => col.size = 0

\* C4's case: children present, a non-zero offset inside the base rows.
C4_Witness ==
    /\ last.op = "init"
    /\ IsNone(last.size)
    /\ Len(last.children) = 2
    /\ last.offset > 0
    /\ col.size > 0
    /\ col.size = Len(last.children[1]) - 1 - last.offset

\* C5: the output of len and of contains has the input's row count, and a
\* row of it is null exactly when that row of the input is null: the
\* input's mask is attached when the input has nulls, and no mask otherwise.
C5_NullPropagation ==
    (last.op \in {"len", "contains"} /\ last.outcome = "ok") =>
        LET c == last.before
            out == last.new_col
        IN  /\ out.size = c.size
            /\ \A r \in 0..(c.size - 1) : NumericNull(out, r) <=> ~RowValid(c, r)
            /\ HasNulls(c) => (~IsNone(out.mask) /\ out.mask = Mask(c))
            /\ ~HasNulls(c) => IsNone(out.mask)

\* C5's case: contains on a window that starts after row 0 and holds a null
\* row, while base row 0 is valid.
C5_Witness ==
    /\ last.op = "contains"
    /\ last.outcome = "ok"
    /\ last.before.offset > 0
    /\ \E r \in 0..(last.before.size - 1) :
           ~RowValid(last.before, r) /\ NumericNull(last.new_col, r)
    /\ Get(last.before.base_mask)[1]

\* A call that raised NotImplementedError before it allocated an output or
\* called a kernel, and left the column and its owner as they were.
FailedFast ==
    /\ last.outcome = "NotImplementedError"
    /\ ~last.allocated
    /\ ~last.kernel
    /\ col = last.before
    /\ parent = last.parent_before

\* C6: contains with a non-default case, flags or na, replace with a
\* non-default case or flags, and extract with flags other than 0 raise
\* before any output is allocated or any kernel is called, and change
\* neither the column nor its owner.
C6_UnsupportedOptionsFailFast ==
    /\ (last.op = "contains"
          /\ (last.args.case /= "True" \/ last.args.flags /= 0 \/ last.args.na /= "nan"))
         => FailedFast
    /\ (last.op = "replace" /\ (last.args.case /= "None" \/ last.args.flags /= 0))
         => FailedFast
    /\ (last.op = "extract" /\ last.args.flags /= 0) => FailedFast

\* C6's case: an inplace contains whose only non-default option is `na`,
\* on a column with rows.
C6_Witness ==
    /\ last.op = "contains"
    /\ last.args.case = "True"
    /\ last.args.flags = 0
    /\ last.args.na /= "nan"
    /\ last.args.inplace
    /\ last.before.size > 0
    /\ last.outcome = "NotImplementedError"

\* The bytes `pat` among the first i - 1 bytes of a string.
MatchesBefore(str, pat, i) == Cardinality({j \in 1..(i - 1) : str[j] = pat})

\* A string with its first n bytes `pat` replaced by `repl`, every one of
\* them when n <= 0.
ReplacedUpTo(str, pat, repl, n) ==
    [i \in 1..Len(str) |->
        IF str[i] = pat /\ (n <= 0 \/ MatchesBefore(str, pat, i) < n)
        THEN repl ELSE str[i]]

\* C7: replace and split hand the kernel -1 (unlimited) for n = 0 and n
\* itself otherwise; replace's result for n = 0 and for n < 0 has every
\* match replaced, and for n > 0 the first n matches of each row.
C7_CountNormalization ==
    (last.op \in {"replace", "split"} /\ last.outcome = "ok") =>
        LET n == last.args.n
            k == Get(last.kernel_n)
            strs == NvStrings(last.before)
        IN  /\ n = 0 => k = 0 - 1
            /\ n /= 0 => k = n
            /\ last.op = "split" => last.new_col.n = k
            /\ last.op = "replace" =>
                  /\ Len(last.new_col.strs) = Len(strs)
                  /\ \A i \in 1..Len(strs) :
                        IF IsNone(strs[i]) THEN IsNone(last.new_col.strs[i])
                        ELSE last.new_col.strs[i]
                               = Some(ReplacedUpTo(Get(strs[i]), Pat, Repl, n))

\* C7's case: replace with n = 0 on a row with two matches, both replaced.
C7_Witness ==
    /\ last.op = "replace"
    /\ last.outcome = "ok"
    /\ last.args.n = 0
    /\ \E i \in 1..Len(last.new_col.strs) :
          /\ NvStrings(last.before)[i] = Some(<<Pat, Pat>>)
          /\ last.new_col.strs[i] = Some(<<Repl, Repl>>)

\* The strings a join is made of: the rows in order, a null row left out,
\* or na_rep in its place when na_rep is given.
JoinedRows(strs, na_rep) ==
    LET idx == SelectSeq([i \in 1..Len(strs) |-> i],
                         LAMBDA i : ~IsNone(strs[i]) \/ ~IsNone(na_rep))
    IN  [k \in 1..Len(idx) |->
            IF IsNone(strs[idx[k]]) THEN Get(na_rep) ELSE Get(strs[idx[k]])]

\* The strings of `items` in order, every one after the first led by sepb.
SepJoined(items, sepb) ==
    Concat([k \in 1..Len(items) |-> IF k = 1 THEN items[k] ELSE sepb \o items[k]])

\* C8: cat without `others` (and without inplace) returns one string, not a
\* column: the join, in row order, of the rows with sep, null rows left out
\* when na_rep is None and replaced by na_rep otherwise.
C8_CatJoinsToOneString ==
    (last.op = "cat" /\ last.args.others.kind = "none" /\ ~last.args.inplace) =>
        /\ last.outcome = "ok"
        /\ last.returned =
              Some([kind |-> "str",
                    value |-> SepJoined(JoinedRows(NvStrings(last.before),
                                                   last.args.na_rep),
                                        SepBytes(last.args.sep))])

\* C8's case: the join of a column of two rows, one null, with a sep and an
\* na_rep.
C8_Witness ==
    /\ last.op = "cat"
    /\ last.args.others.kind = "none"
    /\ last.outcome = "ok"
    /\ last.before.size = 2
    /\ NullCount(last.before) = 1
    /\ ~IsNone(last.args.sep)
    /\ ~IsNone(last.args.na_rep)
    /\ Get(last.returned).kind = "str"
    /\ Len(Get(last.returned).value) = 3

\* The columns of a cat with `others`, the column cat is called on first.
CatOperands ==
    <<NvStrings(last.before)>>
      \o (IF last.args.others.kind = "frames" THEN last.args.others.frames
          ELSE <<last.args.others.strs>>)

\* The strings of `vals` put together from the left with sepb between.
RECURSIVE LeftToRight(_, _)
LeftToRight(vals, sepb) ==
    IF Len(vals) = 1 THEN vals[1]
    ELSE LeftToRight(SubSeq(vals, 1, Len(vals) - 1), sepb) \o sepb \o vals[Len(vals)]

\* C9: with one other column or a sequence of them, of the row count of the
\* column cat is called on, the call returns a column whose row i is
\* self[i] + sep + others_1[i] + sep + others_2[i] ...; with na_rep None the
\* row is null iff one of these is null, with na_rep given every null is
\* replaced by it and no row is null.
C9_CatRowWise ==
    (last.op = "cat" /\ last.args.others.kind \in {"column", "strings", "frames"}) =>
        LET cols == CatOperands
            n == Len(cols[1])
            na_rep == last.args.na_rep
        IN  /\ ((\A k \in 1..Len(cols) : Len(cols[k]) = n) /\ ~last.args.inplace)
                  => last.outcome = "ok"
            /\ last.outcome = "ok" =>
                  /\ \A k \in 1..Len(cols) : Len(cols[k]) = n
                  /\ Get(last.returned).kind = "Series"
                  /\ Len(Get(last.returned).column.strs) = n
                  /\ \A i \in 1..n :
                        LET out == Get(last.returned).column.strs[i]
                        IN  IF (\E k \in 1..Len(cols) : IsNone(cols[k][i])) /\ IsNone(na_rep)
                            THEN IsNone(out)
                            ELSE out = Some(LeftToRight(
                                     [k \in 1..Len(cols) |->
                                         IF IsNone(cols[k][i]) THEN Get(na_rep)
                                         ELSE Get(cols[k][i])],
                                     SepBytes(last.args.sep)))

\* C9's case: a sequence of two others, two rows, a null among the
\* operands, a sep and an na_rep.
C9_Witness ==
    /\ last.op = "cat"
    /\ last.args.others.kind = "frames"
    /\ Len(last.args.others.frames) = 2
    /\ last.outcome = "ok"
    /\ last.before.size = 2
    /\ ~IsNone(last.args.sep)
    /\ ~IsNone(last.args.na_rep)
    /\ \E i \in 1..2 : IsNone(last.args.others.frames[2][i])
    /\ \A i \in 1..2 : Len(Get(Get(last.returned).column.strs[i])) = 5

\* Whether some column of `others` differs in row count from the column cat
\* is called on.
CatMismatch ==
    /\ last.op = "cat"
    /\ last.args.others.kind \in {"column", "strings", "frames"}
    /\ \E k \in 2..Len(CatOperands) : Len(CatOperands[k]) /= Len(CatOperands[1])

C11_ArrowExportShape ==
    (last.op = "to_arrow") =>
        LET c == last.before
            out == last.out
            offs == c.base_children[1]
        IN  /\ out.length = c.size
            /\ out.null_count = NullCount(c)
            /\ (\A r \in 0..(c.size - 1) : ~RowValid(c, r)) => out.type = "NullArray"
            /\ (\E r \in 0..(c.size - 1) : RowValid(c, r)) =>
                  /\ out.type = "StringArray"
                  /\ Len(out.offsets) = c.size + 1
                  /\ out.offsets[1] = 0
                  /\ out.data = SubSeq(c.base_children[2], offs[c.offset + 1] + 1,
                                       offs[c.offset + c.size + 1])
                  /\ \A r \in 0..(c.size - 1) :
                        RowBytes(out.offsets, out.data, r)
                          = RowBytes(offs, c.base_children[2], c.offset + r)
                  /\ IsNone(out.validity) <=> NullCount(c) = 0
                  /\ ~IsNone(out.validity) =>
                        \A r \in 0..(c.size - 1) :
                            Get(out.validity)[r + 1] <=> RowValid(c, r)

\* C11's case: a column of a null row and a valid row with bytes: a string
\* array with a validity buffer.
C11_Witness ==
    /\ last.op = "to_arrow"
    /\ last.before.size = 2
    /\ last.out.type = "StringArray"
    /\ last.out.null_count = 1
    /\ ~IsNone(last.out.validity)
    /\ Len(last.out.data) > 0

\* The texts of the non-null rows of a column, in row order, read from the
\* base children.
NonNullTexts(c) ==
    LET idx == SelectSeq([i \in 1..c.size |-> i], LAMBDA i : RowValid(c, i - 1))
    IN  [k \in 1..Len(idx) |->
            RowBytes(c.base_children[1], c.base_children[2], c.offset + idx[k] - 1)]

\* Whether every row of the output of a cast was converted by format f, the
\* null rows null.
ConvertedBy(c, out, f) ==
    /\ Len(out.rows) = c.size
    /\ \A i \in 1..c.size :
          IF RowValid(c, i - 1)
          THEN out.rows[i] = Some([text |-> RowBytes(c.base_children[1],
                                                     c.base_children[2],
                                                     c.offset + i - 1),
                                   by |-> f])
          ELSE IsNone(out.rows[i])

\* C12, as claimed: a datetime cast with no format infers the format once,
\* from the first non-null row, and hands it to the conversion for all
\* rows; with a format given nothing is inferred; and with no non-null row,
\* or a first non-null row whose format cannot be guessed, the cast fails.
C12_FormatInferredOnce ==
    (last.op = "as_numerical_column" /\ IsDatetime(last.args.dtype)) =>
        LET c == last.before
            valid == NonNullTexts(c)
        IN  IF ~IsNone(last.args.format)
            THEN /\ last.guesses = 0
                 /\ ~IsNone(last.kernel) =>
                       Get(last.kernel_kwargs).format = last.args.format
            ELSE IF Len(valid) > 0 /\ ~IsNone(GuessDatetimeFormat(valid[1]))
            THEN /\ last.guesses = 1
                 /\ last.guess_text = Some(valid[1])
                 /\ ~IsNone(last.kernel) =>
                       Get(last.kernel_kwargs).format
                         = Some(GuessDatetimeFormat(valid[1]))
                 /\ last.outcome = "ok" =>
                       ConvertedBy(c, Get(last.out),
                                   Get(GuessDatetimeFormat(valid[1])))
            ELSE /\ last.outcome /= "ok"
                 /\ IsNone(last.out)

\* C12, amended: with no format given and a column that has a non-null
\* row, the format is guessed once, from the first non-null row, and handed
\* to the conversion for all rows, and the cast fails when it cannot be
\* guessed; a column with rows that are all null fails the cast with
\* nothing guessed; with a format given, or a column of no rows, nothing is
\* guessed, and the column of no rows goes to the conversion without a
\* format.
C12_FormatInference ==
    (last.op = "as_numerical_column" /\ IsDatetime(last.args.dtype)) =>
        LET c == last.before
            valid == NonNullTexts(c)
        IN  IF ~IsNone(last.args.format)
            THEN /\ last.guesses = 0
                 /\ ~IsNone(last.kernel) =>
                       Get(last.kernel_kwargs).format = last.args.format
            ELSE IF c.size = 0
            THEN /\ last.guesses = 0
                 /\ ~IsNone(last.kernel) => IsNone(Get(last.kernel_kwargs).format)
                 /\ last.args.dtype \in DOMAIN typecast_functions.str_to_numeric
                       => ~IsNone(last.kernel)
            ELSE IF Len(valid) = 0
            THEN /\ last.guesses = 0
                 /\ last.outcome /= "ok"
                 /\ IsNone(last.out)
                 /\ IsNone(last.kernel)
            ELSE /\ last.guesses = 1
                 /\ last.guess_text = Some(valid[1])
                 /\ ~IsNone(last.kernel) =>
                       Get(last.kernel_kwargs).format
                         = Some(GuessDatetimeFormat(valid[1]))
                 /\ IF IsNone(GuessDatetimeFormat(valid[1]))
                    THEN last.outcome /= "ok" /\ IsNone(last.out)
                    ELSE last.outcome = "ok" =>
                            ConvertedBy(c, Get(last.out),
                                        Get(GuessDatetimeFormat(valid[1])))

\* C12's case: no format given, the first row null, two rows after the
\* window's start: the format is guessed from the second row and the cast
\* returns a column converted by it.
C12_Witness ==
    /\ last.op = "as_numerical_column"
    /\ last.args.dtype = "datetime64[ms]"
    /\ IsNone(last.args.format)
    /\ last.before.size = 2
    /\ ~RowValid(last.before, 0)
    /\ last.guesses = 1
    /\ last.guess_text = Some(<<"1", "1">>)
    /\ last.outcome = "ok"
    /\ Get(Get(last.out).rows[2]).by = <<"%", "%">>

\* C13, as claimed: a cast to a registered dtype goes to the conversion the
\* table holds for it, a cast to any other dtype fails with the lookup's
\* type-mismatch error (KeyError) and returns no column, and the two tables
\* are never modified.
C13_DispatchOrTypeMismatch ==
    /\ typecast_functions = ModuleTables
    /\ last.op = "as_numerical_column" =>
          IF last.args.dtype \in DOMAIN ModuleTables.str_to_numeric
          THEN /\ ~IsNone(last.kernel) =>
                     last.kernel = Some(ModuleTables.str_to_numeric[last.args.dtype])
               /\ ~IsDatetime(last.args.dtype) => ~IsNone(last.kernel)
               /\ last.outcome = "ok" => ~IsNone(last.kernel)
          ELSE /\ last.outcome = "KeyError"
               /\ IsNone(last.kernel)
               /\ IsNone(last.out)

\* C13, amended: as claimed, except that the cast to an unregistered
\* datetime64 unit with no format, of a column whose rows are all null,
\* fails at the format inference (IndexError) before the table is looked at.
C13_DispatchOrFailure ==
    /\ typecast_functions = ModuleTables
    /\ last.op = "as_numerical_column" =>
          IF last.args.dtype \in DOMAIN ModuleTables.str_to_numeric
          THEN /\ ~IsNone(last.kernel) =>
                     last.kernel = Some(ModuleTables.str_to_numeric[last.args.dtype])
               /\ ~IsDatetime(last.args.dtype) => ~IsNone(last.kernel)
               /\ last.outcome = "ok" => ~IsNone(last.kernel)
          ELSE /\ last.outcome \in {"KeyError", "IndexError"}
               /\ last.outcome = "IndexError" <=>
                     /\ IsDatetime(last.args.dtype)
                     /\ IsNone(last.args.format)
                     /\ last.before.size > 0
                     /\ NullCount(last.before) = last.before.size
               /\ IsNone(last.kernel)
               /\ IsNone(last.out)

\* C13's case: a cast to datetime64[D] of a column with a non-null row and
\* no format: the format is guessed, then the lookup fails.
C13_Witness ==
    /\ last.op = "as_numerical_column"
    /\ last.args.dtype = "datetime64[D]"
    /\ IsNone(last.args.format)
    /\ last.guesses = 1
    /\ last.outcome = "KeyError"
    /\ IsNone(last.out)

\* C14: wrap with a width that is not an integer raises TypeError, and wrap
\* with expand_tabs=True, replace_whitespace=False, drop_whitespace=False,
\* break_long_words=True or break_on_hyphens=True raises
\* NotImplementedError, whatever the other options; neither reaches the
\* kernel.
C14_WrapRejectsUnsupported ==
    last.op = "wrap" =>
        LET o == last.args.options
        IN  /\ IsNone(last.args.width) =>
                  (last.outcome = "TypeError" /\ ~last.kernel)
            /\ (/\ ~IsNone(last.args.width)
                /\ \/ o.expand_tabs = "True"
                   \/ o.replace_whitespace = "False"
                   \/ o.drop_whitespace = "False"
                   \/ o.break_long_words = "True"
                   \/ o.break_on_hyphens = "True")
                 => (last.outcome = "NotImplementedError" /\ ~last.kernel)

\* Whether the last call was an accessor operation on a Series' accessor
\* whose kernel produced a new column.
ProducedNewColumn ==
    \/ /\ last.op \in {"len", "contains", "replace", "lower", "slice_from",
                       "slice_replace", "insert", "wrap"}
       /\ last.kernel
    \/ last.op = "cat" /\ last.outcome \in {"ok", "TypeError"}
    \/ last.op \in Predicates /\ last.owner /= NoParent

\* C15: an accessor operation leaves the base children and the mask of its
\* column as they were; called with inplace=True it hands the new column
\* to the owner, which is bound to it afterwards, and returns nothing;
\* called without, it leaves the owner bound as it was and returns a new
\* object.
C15_InplaceIsRebinding ==
    ProducedNewColumn =>
        /\ col.base_children = last.before.base_children
        /\ col.base_mask = last.before.base_mask
        /\ IF last.args.inplace
           THEN /\ last.outcome = "ok"
                /\ IsNone(last.returned)
                /\ parent.bound = "new_col"
                /\ last.op /= "cat" => parent.value = last.new_col
           ELSE /\ last.outcome = "ok"
                /\ ~IsNone(last.returned)
                /\ parent = last.parent_before

\* C20: isdecimal, isalnum, isalpha, isdigit and isnumeric, whatever
\* inplace and expand they are called with, leave the owner bound to its
\* column and return a new boolean result of the owner's kind (the column
\* itself when the accessor has no owner); len, contains, replace, lower,
\* slice_from, slice_replace, insert and wrap called with inplace=True
\* rebind the owner to the new column and return nothing.
C20_PredicatesDiscardKwargs ==
    /\ last.op \in Predicates =>
          /\ last.outcome = "ok"
          /\ parent = last.parent_before
          /\ col.base_children = last.before.base_children
          /\ col.base_mask = last.before.base_mask
          /\ col.offset = last.before.offset /\ col.size = last.before.size
          /\ last.new_col.kind = "bool"
          /\ last.returned =
                Some([kind |-> IF last.owner = NoParent THEN "Column" ELSE "Series",
                      column |-> last.new_col])
    /\ (/\ last.op \in {"len", "contains", "replace", "lower", "slice_from",
                        "slice_replace", "insert", "wrap"}
        /\ last.kernel
        /\ last.args.inplace)
         => /\ parent = [bound |-> "new_col", value |-> last.new_col]
            /\ IsNone(last.returned)

\* C20's case: isalpha(inplace=True, expand=True) on the accessor of a
\* Series of two rows returns a Series and leaves the owner bound.
C20_Witness ==
    /\ last.op = "isalpha"
    /\ last.args.inplace
    /\ last.args.expand
    /\ last.owner = BoundToColumn
    /\ last.before.size = 2
    /\ parent = BoundToColumn
    /\ Get(last.returned).kind = "Series"

\* What the handles of a column are when built from its current children,
\* mask and size.
FreshNvStrings(c) == NvStringsHandle([c EXCEPT !._children = None])
FreshNvCategory(c) == NvCategoryFromStrings(FreshNvStrings(c))
FreshIndices(c) == CategoryValues(FreshNvCategory(c))

\* C16: the first read of `children` since the column was constructed or
\* mutated computes the pair, every later read returns the cached pair
\* without computing, and every read returns the pair derived from the
\* current base children, offset and size; the cached pair, when there is
\* one, is the pair of the current base.
C16_ChildrenMemoized ==
    /\ (pc = "live" /\ last.op = "children") =>
          /\ Get(last.value) = DeriveChildren(col)
          /\ last.computed <=> (last.reads = 1)
          /\ col._children = last.value
    /\ (pc = "live" /\ ~IsNone(col._children)) =>
          Get(col._children) = DeriveChildren(col)

\* A third operation that is a first read of `children` after a mutation,
\* of a windowed column whose pair is not the base pair.
C16_Witness ==
    /\ pc = "live"
    /\ last.op = "children"
    /\ last.step = 3
    /\ last.reads = 1
    /\ last.computed
    /\ col.size > 0
    /\ Get(last.value) /= col.base_children

\* C19: each cached handle (_nvstrings, _nvcategory, _indices) is absent or
\* is what would be built from the column's current children, mask and
\* size, and every read of nvstrings, nvcategory or indices returns that.
C19_HandleCacheCoherent ==
    pc = "live" =>
       /\ IsNone(col._nvstrings) \/ Get(col._nvstrings) = FreshNvStrings(col)
       /\ IsNone(col._nvcategory) \/ Get(col._nvcategory) = FreshNvCategory(col)
       /\ IsNone(col._indices) \/ Get(col._indices) = FreshIndices(col)
       /\ last.op = "nvstrings" => Get(last.value) = FreshNvStrings(col)
       /\ last.op = "nvcategory" => Get(last.value) = FreshNvCategory(col)
       /\ last.op = "indices" => Get(last.value) = FreshIndices(col)

\* A third operation that reads the indices of a column with a null row and
\* a row that is not null, after a mutation emptied the caches.
C19_Witness ==
    /\ pc = "live"
    /\ last.op = "indices"
    /\ last.step = 3
    /\ last.reads = 1
    /\ last.computed
    /\ \E i \in 1..col.size : Get(last.value)[i] = 0
    /\ \E i \in 1..col.size : Get(last.value)[i] = 0 - 1

\* C17 as stated: the children derived for a column of no rows are an empty
\* offsets child and an empty data child, and the handle built from the
\* column is the empty string array.
C17_ZeroRowEmpty ==
    (pc = "live" /\ col.size = 0) =>
       /\ (last.op = "children" /\ Len(Get(last.value)) = 2) =>
             /\ Get(last.value)[1] = <<>>
             /\ Get(last.value)[2] = <<>>
       /\ last.op = "nvstrings" => Get(last.value) = <<>>

\* C17: for a column of no rows, whatever its offset and mask, the children
\* derived are none when the base has none and otherwise the one offset 0
\* (size + 1 entries) and an empty data child; the handle built from the
\* column is the empty string array and is built without a read of
\* `children`.
C17_ZeroRow ==
    (pc = "live" /\ col.size = 0) =>
       /\ last.op = "children" =>
             Get(last.value) = IF Len(col.base_children) = 0 THEN <<>>
                               ELSE << <<0>>, <<>> >>
       /\ last.op = "nvstrings" =>
             /\ Get(last.value) = <<>>
             /\ ~last.computed

\* A read of the children of a column of no rows that starts at row 1 of a
\* base whose rows hold bytes and are masked.
C17_Witness ==
    /\ pc = "live"
    /\ col.size = 0
    /\ col.offset = 1
    /\ ~IsNone(col.base_mask)
    /\ Len(col.base_children[2]) > 0
    /\ last.op = "children"
    /\ last.computed
    /\ Get(last.value) = << <<0>>, <<>> >>

\* C18: binary_operator returns lhs.cat(rhs), the operands swapped when
\* reflect, exactly when binop is "add" and the other operand is a
\* StringColumn; for every other operator and every operand that is not a
\* StringColumn it raises TypeError and no cat is made.
C18_StringAddOnly ==
    (pc = "done" /\ last.op = "binary_operator") =>
       LET self == [kind |-> "StringColumn", column |-> last.before]
       IN  IF last.binop = "add" /\ IsStringColumn(last.rhs)
           THEN IF last.reflect
                THEN /\ last.outcome = StrCat(last.rhs, self).outcome
                     /\ last.returned = StrCat(last.rhs, self).returned
                ELSE /\ last.outcome = StrCat(self, last.rhs).outcome
                     /\ last.returned = StrCat(self, last.rhs).returned
           ELSE /\ last.outcome = "TypeError"
                /\ IsNone(last.cat)

\* C21: base_size is the row count of the base column: 0 without base
\* children and the element count of the base offsets less one otherwise,
\* whatever the offsets length and the window of the column.
C21_BaseSizeIsRowCount ==
    (pc = "done" /\ last.op = "base_size") =>
       last.value = IF Len(last.before.base_children) = 0 THEN 0
                    ELSE Len(last.before.base_children[1]) - 1

====
